---------------------------- MODULE Spec2Model ----------------------------
(***************************************************************************)
(* HeartGuard: the record store (src/services/storageService.js), the      *)
(* statistics it derives, and the callers that drive it.                   *)
(*                                                                         *)
(* Time.  Date.now() counts milliseconds; the model counts ticks of        *)
(* 1/TicksPerDay of a day, so that "30 * 24 * 60 * 60 * 1000" is           *)
(* RetentionDays * TicksPerDay ticks.  The clock never runs backwards.     *)
(*                                                                         *)
(* Storage.  AsyncStorage is a key/value store: getItem resolves to the    *)
(* stored string or null, or rejects; setItem and multiRemove resolve or   *)
(* reject, and a rejected request leaves the stored value as it was.  A    *)
(* request takes effect at some moment between the call and the moment     *)
(* the awaiting code goes on; other callers run in between.                *)
(***************************************************************************)
EXTENDS Integers, Sequences, FiniteSets, TLC

VARIABLES
  now,      \* the wall clock, in ticks (Date.now())
  store,    \* AsyncStorage: one entry per key of STORAGE_KEYS
  call,     \* per caller: the asynchronous call in progress and its locals
  calls,    \* number of calls begun so far (bounds the exploration)
  ui,       \* the screens' component state (useState)
  healthService  \* the HealthService singleton: its thresholds

vars == <<now, store, call, calls, ui, healthService>>

----------------------------------------------------------------------------
\* Bounds of the exploration (not program constants).

TicksPerDay == 2      \* clock resolution: ticks per day
MaxTicks == 1         \* the clock advances at most this far past Now0
MaxCalls == 2         \* calls begun in one behaviour
MaxUpdates == 2       \* updateHealthData invocations begun in one behaviour
MaxLen == 6           \* length of the streams the statistics are tried on

\* Program constants.

RetentionDays == 30   \* "Keep only last 30 days of data"
DefaultDays == 7      \* getRecentData(days = 7), getStatistics(days = 7)
TrendGap == 5         \* secondAvg > firstAvg + 5

\* The callers whose calls may interleave: the Home screen's producer loop and
\* a screen reading or clearing the store.
Callers == {1, 2}

DayTicks(days) == days * TicksPerDay

\* The clock value of the initial state: late enough that prior sessions can
\* have left samples older than the retention window.
Now0 == DayTicks(RetentionDays) + DayTicks(1) + 1

MaxNow == Now0 + MaxTicks

----------------------------------------------------------------------------
\* Sequences.

Range(s) == {s[i] : i \in 1..Len(s)}

\* Array.prototype.filter is SelectSeq: the elements satisfying the test, in
\* order.

\* Array.prototype.push.
push(s, e) == s \o <<e>>

----------------------------------------------------------------------------
\* Dates.

\* new Date(t).toISOString(): the UTC calendar day and the time within it.
toISOString(t) == [day |-> t \div TicksPerDay, time |-> t % TicksPerDay]

\* The device's offset from UTC, in ticks (local = UTC + TzOffset).
TzOffset == 1

\* today.setHours(0, 0, 0, 0); today.getTime(): local midnight of the day of t.
startOfDay(t) == t - ((t + TzOffset) % TicksPerDay)

----------------------------------------------------------------------------
\* Values.

Nil == <<>>    \* null / undefined / not yet set

\* JSON.stringify and JSON.parse: a string is kept apart from the value it
\* encodes.  Numbers and strings survive the round trip unchanged.
JSONstringify(v) == [json |-> v]
JSONparse(s) == s.json

\* The outcome of a call or of an awaited promise.
Returned(v) == [threw |-> FALSE, val |-> v]
Thrown == [threw |-> TRUE, val |-> Nil]

\* Heart rates the producer reports (getCurrentHeartRate: 45..180).
HeartRates == {72}

\* { value, timestamp: Date.now(), date: new Date().toISOString() }: the two
\* clock readings are `ts' and `dateClock'.
HeartRateRecord(heartRate, ts, dateClock) ==
  [value |-> heartRate, timestamp |-> ts, date |-> toISOString(dateClock)]

\* { ...record, timestamp: Date.now(), date: new Date().toISOString() }: the
\* fields of `record', with timestamp and date set (or overwritten).
FullRecord(record, ts, dateClock) ==
  [f \in (DOMAIN record) \cup {"timestamp", "date"} |->
     IF f = "timestamp" THEN ts
     ELSE IF f = "date" THEN toISOString(dateClock)
     ELSE record[f]]

----------------------------------------------------------------------------
\* The service's pure parts: what each method computes from what it awaited.

\* A variant without the catch: a rejected read is rethrown to the caller.
getHeartRateHistory_rethrows(got) ==
  IF got.threw THEN Thrown
  ELSE Returned(IF got.val = Nil THEN <<>> ELSE JSONparse(got.val))

\* getHeartRateHistory, given the outcome `got' of
\* AsyncStorage.getItem(HEART_RATE_HISTORY):
\*   try { data = await getItem(..); return data ? JSON.parse(data) : [] }
\*   catch { return [] }
getHeartRateHistory(got) ==
  IF got.threw THEN Returned(<<>>)
  ELSE Returned(IF got.val = Nil THEN <<>> ELSE JSONparse(got.val))

\* getHealthRecords, likewise for HEALTH_RECORDS.
getHealthRecords(got) ==
  IF got.threw THEN Returned(<<>>)
  ELSE Returned(IF got.val = Nil THEN <<>> ELSE JSONparse(got.val))

\* history.filter(r => r.timestamp > thirtyDaysAgo), with
\* thirtyDaysAgo = Date.now() - 30 * 24 * 60 * 60 * 1000.
thirtyDaysAgo(t) == t - DayTicks(RetentionDays)

\* A variant that keeps the sample on the boundary (>= for >).
keepLast30Days_inclusive(history, t) ==
  SelectSeq(history, LAMBDA r : r.timestamp >= thirtyDaysAgo(t))

keepLast30Days(history, t) ==
  SelectSeq(history, LAMBDA r : r.timestamp > thirtyDaysAgo(t))

\* The array a save hands to setItem: the history it read, the new record
\* pushed, filtered at clock value t.
saveFiltered(history, record, t) == keepLast30Days(push(history, record), t)

\* A variant of getRecentData that includes the boundary (>= for >).
getRecentData_inclusive(history, days, t) ==
  IF history.threw THEN Returned(<<>>)
  ELSE Returned(SelectSeq(history.val, LAMBDA r : r.timestamp >= t - DayTicks(days)))

\* getRecentData(days), given what getHeartRateHistory returned, at clock t:
\*   history.filter(r => r.timestamp > Date.now() - days * 24 * 60 * 60 * 1000)
getRecentData(history, days, t) ==
  IF history.threw THEN Returned(<<>>)
  ELSE Returned(SelectSeq(history.val, LAMBDA r : r.timestamp > t - DayTicks(days)))

\* getTodayData: history.filter(r => r.timestamp >= startOfDay).
getTodayData(history, t) ==
  IF history.threw THEN Returned(<<>>)
  ELSE Returned(SelectSeq(history.val, LAMBDA r : r.timestamp >= startOfDay(t)))

\* getDataInRange(startDate, endDate).
getDataInRange(history, startDate, endDate) ==
  IF history.threw THEN Returned(<<>>)
  ELSE Returned(SelectSeq(history.val,
                       LAMBDA r : r.timestamp >= startDate /\ r.timestamp <= endDate))

----------------------------------------------------------------------------
\* Numbers.  A JavaScript number is an IEEE-754 double: 53 significant bits,
\* every result rounded to the nearest double, ties to the even one.  The
\* doubles the statistics meet are means of heart rates, and those means plus
\* or minus 5: at least 1 and far below 2^31.  Such a double is its integer
\* part and the 52 bits after the binary point, of which a number with an
\* integer part of b bits keeps the first 53 - b.

FracBits == 52

NaN == [nan |-> TRUE, int |-> 0, frac |-> <<>>]

Zeros(k) == [i \in 1..k |-> 0]

\* The double of an integer (exact).
Double(k) == [nan |-> FALSE, int |-> k, frac |-> Zeros(FracBits)]

\* The number of bits of a positive integer.
RECURSIVE BitLen(_)
BitLen(k) == IF k <= 1 THEN 1 ELSE 1 + BitLen(k \div 2)

\* 2^i modulo n, by repeated squaring.
RECURSIVE Pow2Mod(_, _)
Pow2Mod(i, n) ==
  IF i = 0 THEN 1 % n
  ELSE LET half == Pow2Mod(i \div 2, n)
       IN (half * half * (IF i % 2 = 1 THEN 2 ELSE 1)) % n

\* The remainder r / n leaves after i bits of long division (0 <= r < n):
\* (r * 2^i) modulo n.
QuotientRest(r, n, i) == (r * Pow2Mod(i, n)) % n

\* The first k bits after the binary point of r / n: bit i is the quotient
\* digit of the i-th step of the long division.
QuotientBits(r, n, k) == [i \in 1..k |-> (2 * QuotientRest(r, n, i - 1)) \div n]

\* The bits incremented by one unit in the last place, <<carry, bits>>: the
\* last 0 becomes 1 and the 1s after it become 0.
Increment(bits) ==
  LET zeros == {i \in 1..Len(bits) : bits[i] = 0} IN
    IF zeros = {} THEN <<1, Zeros(Len(bits))>>
    ELSE LET last == CHOOSE i \in zeros : \A j \in zeros : j <= i
         IN <<0, [i \in 1..Len(bits) |->
                    IF i < last THEN bits[i] ELSE IF i = last THEN 1 ELSE 0]>>

\* Round to nearest, ties to even: the double nearest to int + 0.bits (+ a
\* little more when `sticky'), where bits holds FracBits + 1 bits.
RoundToDouble(int, bits, sticky) ==
  LET keep == FracBits + 1 - BitLen(int)
      kept == SubSeq(bits, 1, keep)
      guard == bits[keep + 1]
      more == sticky \/ \E i \in (keep + 2)..Len(bits) : bits[i] = 1
      odd == IF keep = 0 THEN int % 2 = 1 ELSE kept[keep] = 1
      up == guard = 1 /\ (more \/ odd)
      inc == Increment(kept)
  IN [nan |-> FALSE,
      int |-> IF up THEN int + inc[1] ELSE int,
      frac |-> (IF up THEN inc[2] ELSE kept) \o Zeros(FracBits - keep)]

\* sum / length, for a sum of integers: 0 / 0 is NaN.
Divide(sum, length) ==
  IF length = 0 THEN NaN
  ELSE RoundToDouble(sum \div length,
                     QuotientBits(sum % length, length, FracBits + 1),
                     QuotientRest(sum % length, length, FracBits + 1) # 0)

\* x + k and x - k, for an integer k >= 0 (x - k stays at least 1 here, so the
\* difference is exact).
Plus(x, k) ==
  IF x.nan THEN NaN ELSE RoundToDouble(x.int + k, x.frac \o <<0>>, FALSE)

Minus(x, k) ==
  IF x.nan THEN NaN ELSE [nan |-> FALSE, int |-> x.int - k, frac |-> x.frac]

\* x > y and x < y: false when either is NaN.
GreaterThan(x, y) ==
  /\ ~x.nan /\ ~y.nan
  /\ \/ x.int > y.int
     \/ /\ x.int = y.int
        /\ \E i \in 1..FracBits :
             /\ x.frac[i] > y.frac[i]
             /\ \A j \in 1..(i - 1) : x.frac[j] = y.frac[j]

LessThan(x, y) == GreaterThan(y, x)

\* The double nearest to r / n, for 1/2 <= r / n < 1: its 53 significant bits
\* are the first FracBits + 1 bits after the binary point.
Fraction(r, n) ==
  LET bits == QuotientBits(r, n, FracBits + 2)
      kept == SubSeq(bits, 1, FracBits + 1)
      up == /\ bits[FracBits + 2] = 1
            /\ (QuotientRest(r, n, FracBits + 2) # 0 \/ kept[FracBits + 1] = 1)
  IN IF up THEN Increment(kept)[2] ELSE kept

\* The literal 0.85: the double nearest to 17 / 20.
Literal085 == Fraction(17, 20)

\* Bits (most significant first) and the integer they spell.
RECURSIVE BitsValue(_)
BitsValue(bits) ==
  IF bits = <<>> THEN 0
  ELSE 2 * BitsValue(SubSeq(bits, 1, Len(bits) - 1)) + bits[Len(bits)]

ValueBits(v, w) == [i \in 1..w |-> (v \div 2^(w - i)) % 2]

\* The exact product of an integer 0 <= m < 2^8 and the fraction 0.bits, plus
\* carry units in the last place, as <<integer part, bits>>: long
\* multiplication, LimbBits bits at a time from the right.
LimbBits == 22

RECURSIVE TimesBits(_, _, _)
TimesBits(m, bits, carry) ==
  IF bits = <<>> THEN <<carry, <<>>>>
  ELSE LET n == Len(bits)
           w == IF n < LimbBits THEN n ELSE LimbBits
           t == m * BitsValue(SubSeq(bits, n - w + 1, n)) + carry
           rest == TimesBits(m, SubSeq(bits, 1, n - w), t \div 2^w)
       IN <<rest[1], rest[2] \o ValueBits(t % 2^w, w)>>

\* m * x for an integer 2 <= m < 2^8 and a double 1/2 <= x < 1 given by its
\* bits: the exact product, rounded to the nearest double.
Times(m, x) ==
  LET product == TimesBits(m, x, 0) IN RoundToDouble(product[1], product[2], FALSE)

\* Math.round: the nearest integer, halves upwards; NaN stays NaN.
MathRound(x) ==
  IF x.nan THEN NaN
  ELSE Double(IF x.frac[1] = 1 THEN x.int + 1 ELSE x.int)

----------------------------------------------------------------------------
\* Statistics.

\* values.reduce((acc, val) => acc + val, 0): a sum of integers, exact.
RECURSIVE sum(_)
sum(values) == IF values = <<>> THEN 0 ELSE Head(values) + sum(Tail(values))

\* The first value, where the code takes the largest.
MathMax_ofFirst(values) == values[1]

\* Math.max(...values) and Math.min(...values), for a non-empty array.
MathMax(values) == CHOOSE v \in Range(values) : \A w \in Range(values) : w <= v
MathMin(values) == CHOOSE v \in Range(values) : \A w \in Range(values) : w >= v

\* values.slice(from, to): the elements at (0-based) indices from .. to - 1.
slice(values, from, to) == SubSeq(values, from + 1, to)

\* data.map(r => r.value).
valuesOf(data) == [i \in 1..Len(data) |-> data[i].value]

\* Math.floor(values.length / 2).
mid(values) == Len(values) \div 2

\* The unrounded means of the two halves.
firstAvg(values) ==
  Divide(sum(slice(values, 0, mid(values))), Len(slice(values, 0, mid(values))))

secondAvg(values) ==
  Divide(sum(slice(values, mid(values), Len(values))),
         Len(slice(values, mid(values), Len(values))))

\* let trend = 'stable';
\* if (secondAvg > firstAvg + 5) trend = 'rising';
\* if (secondAvg < firstAvg - 5) trend = 'falling';
trend(values) ==
  IF LessThan(secondAvg(values), Minus(firstAvg(values), TrendGap)) THEN "falling"
  ELSE IF GreaterThan(secondAvg(values), Plus(firstAvg(values), TrendGap)) THEN "rising"
  ELSE "stable"

\* The mean cut off at its integer part, where the code rounds it.
average_truncating(values) == sum(values) \div Len(values)

\* Math.round(sum / values.length), for a non-empty array (never NaN).
average(values) == MathRound(Divide(sum(values), Len(values))).int

\* The zero state without its count (the shape the History screen keeps).
ZeroStatistics_withoutCount == [average |-> 0, max |-> 0, min |-> 0, trend |-> "stable"]

\* The object getStatistics returns for no data, and from its catch.
ZeroStatistics == [average |-> 0, max |-> 0, min |-> 0, count |-> 0, trend |-> "stable"]

\* getStatistics, given what getRecentData(days) returned.  firstAvg and
\* secondAvg are Math.round of a number that may be NaN, and stay doubles.
getStatistics(data) ==
  IF data.threw \/ Len(data.val) = 0 THEN Returned(ZeroStatistics)
  ELSE LET values == valuesOf(data.val) IN
       Returned([average |-> average(values),
                 max |-> MathMax(values),
                 min |-> MathMin(values),
                 count |-> Len(data.val),
                 trend |-> trend(values),
                 firstAvg |-> MathRound(firstAvg(values)),
                 secondAvg |-> MathRound(secondAvg(values))])

\* HistoryScreen.calculateStats(records): the argument of setStats.
calculateStats(records) ==
  IF Len(records) = 0
  THEN [average |-> 0, max |-> 0, min |-> 0, trend |-> "stable"]
  ELSE LET values == valuesOf(records) IN
       [average |-> average(values), max |-> MathMax(values),
        min |-> MathMin(values), trend |-> trend(values)]

\* The key getDataGroupedByDay files a record under: the local calendar day of
\* its timestamp (`${getFullYear()}-${getMonth() + 1}-${getDate()}`).
dateKey(timestamp) == (timestamp + TzOffset) \div TicksPerDay

\* Object.keys(grouped): the keys in the order they were first used.
RECURSIVE ObjectKeys(_)
ObjectKeys(data) ==
  IF data = <<>> THEN <<>>
  ELSE LET rest == ObjectKeys(SubSeq(data, 1, Len(data) - 1))
           last == dateKey(data[Len(data)].timestamp)
       IN IF last \in Range(rest) THEN rest ELSE Append(rest, last)

\* grouped[key]: the values of the records filed under key, in order.
grouped(data, key) ==
  valuesOf(SelectSeq(data, LAMBDA r : dateKey(r.timestamp) = key))

\* result.sort((a, b) => new Date(a.date) - new Date(b.date)).  The keys are
\* not in a format Date must parse: where it parses them the days come out in
\* calendar order; where it does not, every comparison is NaN and the (stable)
\* sort leaves the order as it was.
sortByDate(result, parses) ==
  IF parses THEN SortSeq(result, LAMBDA a, b : a.date < b.date) ELSE result

\* getDataGroupedByDay, given what getRecentData(days) returned.
getDataGroupedByDay(data, parses) ==
  IF data.threw THEN Returned(<<>>)
  ELSE LET keys == ObjectKeys(data.val) IN
       Returned(sortByDate(
         [i \in 1..Len(keys) |->
            LET values == grouped(data.val, keys[i]) IN
              [date |-> keys[i], average |-> average(values), count |-> Len(values),
               max |-> MathMax(values), min |-> MathMin(values)]],
         parses))

\* getThresholds and getUserSettings, given the outcome of their getItem: the
\* stored object, or the default when nothing is stored or the read fails.
DefaultThresholds == [min |-> 60, max |-> 100, minBloodOxygen |-> 95]

getThresholds(got) ==
  IF got.threw \/ got.val = Nil THEN Returned(DefaultThresholds)
  ELSE Returned(JSONparse(got.val))

DefaultSettings == [notifications |-> TRUE, autoSave |-> TRUE, theme |-> "light"]

getUserSettings(got) ==
  IF got.threw \/ got.val = Nil THEN Returned(DefaultSettings)
  ELSE Returned(JSONparse(got.val))

\* calculateSize(data): the byte length of JSON.stringify(data), kept as the
\* string it measures.
calculateSize(data) == [bytes |-> JSONstringify(data)]

----------------------------------------------------------------------------
\* The health service (HealthService, a singleton).

\* constructor: this.thresholds.
HealthService ==
  [thresholds |-> [minHeartRate |-> 60, maxHeartRate |-> 100, minBloodOxygen |-> 95]]

\* The age checkHeartRateThreshold assumes when it is given none.
DefaultAge == 30

\* { ...a, ...b }: the fields of both, b's value where both have the field.
spread(a, b) ==
  [f \in (DOMAIN a) \cup (DOMAIN b) |-> IF f \in DOMAIN b THEN b[f] ELSE a[f]]

\* A variant that calls a value equal to maxAllowed * 0.85 dangerous already.
checkHeartRateThreshold_fromLimit(heartRate, userAge) ==
  LET minHeartRate == healthService.thresholds.minHeartRate
      maxHeartRate == healthService.thresholds.maxHeartRate
      maxAllowed == 220 - userAge
  IN IF heartRate < minHeartRate
     THEN [status |-> "low", severity |-> "warning",
           message |-> [text |-> "Heart rate is low", reading |-> heartRate]]
     ELSE IF heartRate > maxHeartRate
     THEN IF ~LessThan(Double(heartRate), Times(maxAllowed, Literal085))
          THEN [status |-> "high", severity |-> "danger",
                message |-> [text |-> "Heart rate is too high", reading |-> heartRate]]
          ELSE [status |-> "high", severity |-> "warning",
                message |-> [text |-> "Heart rate is elevated", reading |-> heartRate]]
     ELSE [status |-> "normal", severity |-> "normal",
           message |-> [text |-> "Heart rate is normal"]]

\* checkHeartRateThreshold(heartRate, userAge), for an integer heartRate: it
\* reads this.thresholds.  maxAllowed * 0.85 is a product of doubles.
checkHeartRateThreshold(heartRate, userAge) ==
  LET minHeartRate == healthService.thresholds.minHeartRate
      maxHeartRate == healthService.thresholds.maxHeartRate
      maxAllowed == 220 - userAge
  IN IF heartRate < minHeartRate
     THEN [status |-> "low", severity |-> "warning",
           message |-> [text |-> "Heart rate is low", reading |-> heartRate]]
     ELSE IF heartRate > maxHeartRate
     THEN IF GreaterThan(Double(heartRate), Times(maxAllowed, Literal085))
          THEN [status |-> "high", severity |-> "danger",
                message |-> [text |-> "Heart rate is too high", reading |-> heartRate]]
          ELSE [status |-> "high", severity |-> "warning",
                message |-> [text |-> "Heart rate is elevated", reading |-> heartRate]]
     ELSE [status |-> "normal", severity |-> "normal",
           message |-> [text |-> "Heart rate is normal"]]

\* checkBloodOxygen(bloodOxygen): the test against 90 is made only below
\* this.thresholds.minBloodOxygen.
checkBloodOxygen(bloodOxygen) ==
  LET minBloodOxygen == healthService.thresholds.minBloodOxygen
  IN IF bloodOxygen < minBloodOxygen
     THEN IF bloodOxygen < 90
          THEN [status |-> "critical", severity |-> "danger",
                message |-> [text |-> "Blood oxygen level is critical",
                             reading |-> bloodOxygen]]
          ELSE [status |-> "low", severity |-> "warning",
                message |-> [text |-> "Blood oxygen level is low",
                             reading |-> bloodOxygen]]
     ELSE [status |-> "normal", severity |-> "normal",
           message |-> [text |-> "Blood oxygen level is normal"]]

----------------------------------------------------------------------------
\* State.

\* A caller with no call in progress.  `rec' is the record a save builds,
\* `key' the key of the storage request awaited (or last awaited), `got' the
\* outcome of the last getItem, `reads' what the service's getters returned so
\* far in this call, `at' the Date.now() a save read for its filter, `out' the
\* string handed to setItem, `result' the outcome of the call.  `before',
\* `stale' and `prev' are history, not program state: what the key held when
\* the call began, whether the key was written by someone else after this call
\* read it, and the caller's previous call.
IdleCall ==
  [pc |-> "idle", op |-> "none", arg |-> Nil, rec |-> Nil, key |-> "none",
   got |-> Nil, reads |-> <<>>, at |-> 0, out |-> Nil, result |-> Nil,
   before |-> Nil, stale |-> FALSE, prev |-> Nil]

Summary(c) ==
  IF c.pc = "done"
  THEN [op |-> c.op, arg |-> c.arg, rec |-> c.rec, out |-> c.out, result |-> c.result]
  ELSE Nil

\* The caller p may begin a call.
Ready(p) == call[p].pc \in {"idle", "done"} /\ calls < MaxCalls

\* p begins `op(arg)' and awaits getItem(key).
BeginReading(p, op, arg, rec, key) ==
  /\ Ready(p)
  /\ call' = [call EXCEPT ![p] =
       [IdleCall EXCEPT !.pc = "getItem", !.op = op, !.arg = arg, !.rec = rec,
                        !.key = key, !.before = store[key],
                        !.prev = Summary(call[p])]]
  /\ calls' = calls + 1

\* STORAGE_KEYS.
STORAGE_KEYS ==
  {"HEART_RATE_HISTORY", "HEALTH_RECORDS", "THRESHOLDS", "USER_SETTINGS"}

\* What earlier sessions can have left in the store.
OldSample == HeartRateRecord(60, Now0 - DayTicks(RetentionDays) - 1,
                             Now0 - DayTicks(RetentionDays) - 1)
EdgeSample == HeartRateRecord(80, Now0 - DayTicks(RetentionDays) + 1,
                              Now0 - DayTicks(RetentionDays) + 1)
RecentSample == HeartRateRecord(60, Now0 - 1, Now0 - 1)

HealthInput ==
  [heartRate |-> 60, bloodOxygen |-> 97, steps |-> 20, calories |-> 1, distance |-> 0]

EdgeHealth == FullRecord(HealthInput, Now0 - DayTicks(RetentionDays) + 1,
                         Now0 - DayTicks(RetentionDays) + 1)

\* Thresholds the Settings screen has saved: saveThresholds({ min, max }).
SavedThresholds == [min |-> 50, max |-> 120]

EmptyStore == [k \in STORAGE_KEYS |-> Nil]

PriorStores ==
  { EmptyStore,
    [EmptyStore EXCEPT !["HEART_RATE_HISTORY"] = JSONstringify(<<EdgeSample, RecentSample>>)],
    [EmptyStore EXCEPT !["HEART_RATE_HISTORY"] = JSONstringify(<<OldSample, EdgeSample>>),
                       !["HEALTH_RECORDS"] = JSONstringify(<<EdgeHealth>>),
                       !["THRESHOLDS"] = JSONstringify(SavedThresholds)] }

\* Text (a period key, the content of a text input) is a sequence of
\* characters.
Digits == <<"0", "1", "2", "3", "4", "5", "6", "7", "8", "9">>

IsDigit(c) == \E i \in 1..Len(Digits) : Digits[i] = c

DigitValue(c) == (CHOOSE i \in 1..Len(Digits) : Digits[i] = c) - 1

\* The number a sequence of digits spells.
RECURSIVE DecimalValue(_)
DecimalValue(digits) ==
  IF digits = <<>> THEN 0
  ELSE 10 * DecimalValue(SubSeq(digits, 1, Len(digits) - 1))
       + DigitValue(digits[Len(digits)])

\* parseInt(text): leading blanks are skipped, a sign is taken, then the
\* digits up to the first character that is not one; whatever follows is
\* ignored.  NaN when there is no digit to take.
parseInt(text) ==
  LET start == CHOOSE i \in 1..(Len(text) + 1) :
                 /\ \A j \in 1..(i - 1) : text[j] = " "
                 /\ i <= Len(text) => text[i] # " "
      signed == start <= Len(text) /\ text[start] \in {"+", "-"}
      first == IF signed THEN start + 1 ELSE start
      last == CHOOSE j \in (first - 1)..Len(text) :
                /\ \A k \in first..j : IsDigit(text[k])
                /\ j < Len(text) => ~IsDigit(text[j + 1])
      value == DecimalValue(SubSeq(text, first, last))
  IN IF last < first THEN NaN
     ELSE Double(IF signed /\ text[start] = "-" THEN 0 - value ELSE value)

\* The period buttons' keys: 'today', '7', '14', '30'.
today == <<"t", "o", "d", "a", "y">>

PeriodKeys == {today, <<"7">>, <<"1", "4">>, <<"3", "0">>}

\* HistoryScreen: useState('today'), useState([]), useState(true),
\* useState({ average: 0, max: 0, min: 0, trend: 'stable' }).
\* SettingsScreen: useState(false) for thresholdDialogVisible, useState('60'),
\* useState('100'); `alert' is the last Alert.alert(title, message) shown.
\* HomeScreen: useState(0) for heartRate, useState(false) for monitoring and
\* alertVisible, useState('') for alertMessage, useRef(null) for intervalRef
\* (0 stands for null: the ids setInterval gives are positive).  `timers' are
\* the intervals set and not cleared, `timerIds' the number of ids given out,
\* `update' the updateHealthData invocation each caller is running (where it
\* is, who awaits it, its locals hr and check.status) and
\* `updates' the number of invocations begun.
NoUpdate == [stage |-> "none", from |-> "none", hr |-> 0, check |-> "none"]

InitialHome ==
  [heartRate |-> 0, monitoring |-> FALSE, alertVisible |-> FALSE, alertMessage |-> Nil,
   intervalRef |-> 0, timers |-> {}, timerIds |-> 0,
   update |-> [p \in Callers |-> NoUpdate], updates |-> 0]

InitialUI ==
  [history |-> [period |-> today, data |-> <<>>, loading |-> TRUE,
                stats |-> [average |-> 0, max |-> 0, min |-> 0, trend |-> "stable"]],
   settings |-> [thresholdDialogVisible |-> FALSE,
                 minHeartRate |-> <<"6", "0">>,
                 maxHeartRate |-> <<"1", "0", "0">>,
                 alert |-> Nil],
   home |-> InitialHome]

Init ==
  /\ now = Now0
  /\ store \in PriorStores
  /\ call = [p \in Callers |-> IdleCall]
  /\ calls = 0
  /\ ui = InitialUI
  /\ healthService = HealthService

----------------------------------------------------------------------------
\* The clock.  `now' is the latest reading of Date.now(); time passes between
\* readings, and a reading is never earlier than the one before it.

\* What the next reading of the clock can be.
Readings(t) == {u \in {t, t + 1} : u <= MaxNow}

----------------------------------------------------------------------------
\* AsyncStorage.

\* getItem(key) takes effect: it resolves to the stored string (or null), or
\* rejects.
AsyncStorage_getItem(p) ==
  /\ call[p].pc = "getItem"
  /\ \E got \in {Returned(store[call[p].key]), Thrown} :
       call' = [call EXCEPT ![p].pc = "gotItem", ![p].got = got]
  /\ UNCHANGED <<now, store, calls, ui, healthService>>

\* Callers that hold a value of `key' read before a write to it.
Holding(p, key) ==
  {q \in Callers \ {p} : call[q].key = key /\ call[q].pc \in {"gotItem", "setItem"}}

MarkStale(c, p, keys) ==
  [q \in Callers |-> IF \E k \in keys : q \in Holding(p, k)
                     THEN [c[q] EXCEPT !.stale = TRUE] ELSE c[q]]

\* setItem(key, out) takes effect and the save goes on to `return true'.
AsyncStorage_setItem(p) ==
  /\ call[p].pc = "setItem"
  /\ store' = [store EXCEPT ![call[p].key] = call[p].out]
  /\ call' = MarkStale([call EXCEPT ![p].pc = "done", ![p].result = Returned(TRUE)],
                       p, {call[p].key})
  /\ UNCHANGED <<now, calls, ui, healthService>>

\* A variant in which the rejected write has already replaced the value.
AsyncStorage_setItem_fails_after_writing(p) ==
  /\ call[p].pc = "setItem"
  /\ store' = [store EXCEPT ![call[p].key] = call[p].out]
  /\ call' = [call EXCEPT ![p].pc = "done", ![p].result = Returned(FALSE)]
  /\ UNCHANGED <<now, calls, ui, healthService>>

\* setItem rejects: the store keeps what it held, and the save's catch logs
\* the error and returns false.
AsyncStorage_setItem_fails(p) ==
  /\ call[p].pc = "setItem"
  /\ call' = [call EXCEPT ![p].pc = "done", ![p].result = Returned(FALSE)]
  /\ UNCHANGED <<now, store, calls, ui, healthService>>

\* A variant of clearAllData that forgets the health records.
ClearedKeys_heartRateOnly == {"HEART_RATE_HISTORY"}

\* multiRemove([HEART_RATE_HISTORY, HEALTH_RECORDS]) takes effect and
\* clearAllData goes on to `return true'.
ClearedKeys == {"HEART_RATE_HISTORY", "HEALTH_RECORDS"}

AsyncStorage_multiRemove(p) ==
  /\ call[p].pc = "multiRemove"
  /\ store' = [k \in STORAGE_KEYS |-> IF k \in ClearedKeys THEN Nil ELSE store[k]]
  /\ call' = MarkStale([call EXCEPT ![p].pc = "done", ![p].result = Returned(TRUE)],
                       p, ClearedKeys)
  /\ UNCHANGED <<now, calls, ui, healthService>>

\* multiRemove rejects: clearAllData's catch returns false.
AsyncStorage_multiRemove_fails(p) ==
  /\ call[p].pc = "multiRemove"
  /\ call' = [call EXCEPT ![p].pc = "done", ![p].result = Returned(FALSE)]
  /\ UNCHANGED <<now, store, calls, ui, healthService>>

----------------------------------------------------------------------------
\* StorageService: each method is a call (its synchronous start, up to the
\* first await) and one step per resumption after an await.

\* p's call returns.
Return(p, result) ==
  call' = [call EXCEPT ![p].pc = "done", ![p].result = result]

\* p's awaited getItem has taken effect and `op' resumes.
Resumes(p, op) == call[p].pc = "gotItem" /\ call[p].op = op

\* saveHeartRateRecord(heartRate): build the record, await getHeartRateHistory().
saveHeartRateRecord_call(p) ==
  \E heartRate \in HeartRates, t \in Readings(now) : \E dateClock \in Readings(t) :
    /\ BeginReading(p, "saveHeartRateRecord", heartRate,
                    HeartRateRecord(heartRate, t, dateClock), "HEART_RATE_HISTORY")
    /\ now' = dateClock
    /\ UNCHANGED <<store, ui, healthService>>

\* Values that are not numbers: undefined, null, the string '72', NaN.
\* (JSON.stringify writes NaN as null and leaves an undefined field out; the
\* record itself is written all the same.)
Undefined == [type |-> "undefined"]
Null == [type |-> "null"]
NonNumbers == {Undefined, Null, [type |-> "string", text |-> <<"7", "2">>], NaN}

\* saveHeartRateRecord(heartRate) called with a value that is not a number:
\* the same code runs, there is no test of the argument.
saveHeartRateRecord_nonNumeric(p) ==
  \E heartRate \in NonNumbers, t \in Readings(now) : \E dateClock \in Readings(t) :
    /\ BeginReading(p, "saveHeartRateRecord", heartRate,
                    HeartRateRecord(heartRate, t, dateClock), "HEART_RATE_HISTORY")
    /\ now' = dateClock
    /\ UNCHANGED <<store, ui, healthService>>

\* ... push, filter to the last 30 days, await setItem.
saveHeartRateRecord_filter(p) ==
  /\ Resumes(p, "saveHeartRateRecord")
  /\ \E t \in Readings(now) :
       LET history == getHeartRateHistory(call[p].got) IN
         /\ IF history.threw
            THEN Return(p, Returned(FALSE))
            ELSE call' = [call EXCEPT
                   ![p].pc = "setItem",
                   ![p].at = t,
                   ![p].out = JSONstringify(saveFiltered(history.val, call[p].rec, t))]
         /\ now' = t
  /\ UNCHANGED <<store, calls, ui, healthService>>

\* Records the callers hand to saveHealthRecord: the Home screen's, and one
\* that carries a timestamp of its own, 31 days back.
HealthInputs(t) ==
  { HealthInput,
    [f \in (DOMAIN HealthInput) \cup {"timestamp"} |->
       IF f = "timestamp" THEN t - DayTicks(RetentionDays + 1) ELSE HealthInput[f]] }

\* saveHealthRecord(record).
saveHealthRecord_call(p) ==
  \E t \in Readings(now) : \E dateClock \in Readings(t), record \in HealthInputs(t) :
    /\ BeginReading(p, "saveHealthRecord", record,
                    FullRecord(record, t, dateClock), "HEALTH_RECORDS")
    /\ now' = dateClock
    /\ UNCHANGED <<store, ui, healthService>>

saveHealthRecord_filter(p) ==
  /\ Resumes(p, "saveHealthRecord")
  /\ \E t \in Readings(now) :
       LET history == getHealthRecords(call[p].got) IN
         /\ IF history.threw
            THEN Return(p, Returned(FALSE))
            ELSE call' = [call EXCEPT
                   ![p].pc = "setItem",
                   ![p].at = t,
                   ![p].out = JSONstringify(saveFiltered(history.val, call[p].rec, t))]
         /\ now' = t
  /\ UNCHANGED <<store, calls, ui, healthService>>

\* getHeartRateHistory().
getHeartRateHistory_call(p) ==
  /\ BeginReading(p, "getHeartRateHistory", Nil, Nil, "HEART_RATE_HISTORY")
  /\ UNCHANGED <<now, store, ui, healthService>>

getHeartRateHistory_return(p) ==
  /\ Resumes(p, "getHeartRateHistory")
  /\ Return(p, getHeartRateHistory(call[p].got))
  /\ UNCHANGED <<now, store, calls, ui, healthService>>

\* getHealthRecords().
getHealthRecords_call(p) ==
  /\ BeginReading(p, "getHealthRecords", Nil, Nil, "HEALTH_RECORDS")
  /\ UNCHANGED <<now, store, ui, healthService>>

getHealthRecords_return(p) ==
  /\ Resumes(p, "getHealthRecords")
  /\ Return(p, getHealthRecords(call[p].got))
  /\ UNCHANGED <<now, store, calls, ui, healthService>>

\* The periods the History screen asks for (7, 14 and 30 days), and 1.
Periods == {1, DefaultDays, 14, RetentionDays}

\* getRecentData(days).
getRecentData_call(p) ==
  \E days \in Periods :
    /\ BeginReading(p, "getRecentData", days, Nil, "HEART_RATE_HISTORY")
    /\ UNCHANGED <<now, store, ui, healthService>>

\* A variant of getRecentData that writes the filtered list back.
getRecentData_return_pruning(p) ==
  /\ Resumes(p, "getRecentData")
  /\ \E t \in Readings(now) :
       LET data == getRecentData(getHeartRateHistory(call[p].got), call[p].arg, t) IN
         /\ call' = [call EXCEPT ![p].pc = "done", ![p].result = data]
         /\ store' = [store EXCEPT !["HEART_RATE_HISTORY"] = JSONstringify(data.val)]
         /\ now' = t
  /\ UNCHANGED <<calls, ui, healthService>>

getRecentData_return(p) ==
  /\ Resumes(p, "getRecentData")
  /\ \E t \in Readings(now) :
       /\ Return(p, getRecentData(getHeartRateHistory(call[p].got), call[p].arg, t))
       /\ now' = t
  /\ UNCHANGED <<store, calls, ui, healthService>>

\* getTodayData().
getTodayData_call(p) ==
  /\ BeginReading(p, "getTodayData", Nil, Nil, "HEART_RATE_HISTORY")
  /\ UNCHANGED <<now, store, ui, healthService>>

getTodayData_return(p) ==
  /\ Resumes(p, "getTodayData")
  /\ \E t \in Readings(now) :
       /\ Return(p, getTodayData(getHeartRateHistory(call[p].got), t))
       /\ now' = t
  /\ UNCHANGED <<store, calls, ui, healthService>>

\* getDataInRange(startDate, endDate): ranges that end or start on a stored
\* timestamp, so that both bounds are met exactly.
Ranges ==
  { [startDate |-> Now0 - DayTicks(RetentionDays) + 1, endDate |-> Now0 - 1],
    [startDate |-> Now0 - 1, endDate |-> Now0],
    [startDate |-> Now0, endDate |-> Now0 - 1] }

getDataInRange_call(p) ==
  \E range \in Ranges :
    /\ BeginReading(p, "getDataInRange", range, Nil, "HEART_RATE_HISTORY")
    /\ UNCHANGED <<now, store, ui, healthService>>

getDataInRange_return(p) ==
  /\ Resumes(p, "getDataInRange")
  /\ Return(p, getDataInRange(getHeartRateHistory(call[p].got),
                              call[p].arg.startDate, call[p].arg.endDate))
  /\ UNCHANGED <<now, store, calls, ui, healthService>>

\* clearAllData(): await multiRemove.
clearAllData_call(p) ==
  /\ Ready(p)
  /\ call' = [call EXCEPT ![p] =
       [IdleCall EXCEPT !.pc = "multiRemove", !.op = "clearAllData",
                        !.prev = Summary(call[p])]]
  /\ calls' = calls + 1
  /\ UNCHANGED <<now, store, ui, healthService>>

\* p's call returns `result', computed from the `data' it awaited.
ReturnFrom(p, data, result) ==
  call' = [call EXCEPT ![p].pc = "done", ![p].reads = <<data>>, ![p].result = result]

\* getStatistics(days): await getRecentData(days), which reads the clock.
getStatistics_call(p) ==
  \E days \in Periods :
    /\ BeginReading(p, "getStatistics", days, Nil, "HEART_RATE_HISTORY")
    /\ UNCHANGED <<now, store, ui, healthService>>

getStatistics_return(p) ==
  /\ Resumes(p, "getStatistics")
  /\ \E t \in Readings(now) :
       LET data == getRecentData(getHeartRateHistory(call[p].got), call[p].arg, t) IN
         /\ ReturnFrom(p, data.val, getStatistics(data))
         /\ now' = t
  /\ UNCHANGED <<store, calls, ui, healthService>>

\* getDataGroupedByDay(days).
getDataGroupedByDay_call(p) ==
  \E days \in Periods :
    /\ BeginReading(p, "getDataGroupedByDay", days, Nil, "HEART_RATE_HISTORY")
    /\ UNCHANGED <<now, store, ui, healthService>>

getDataGroupedByDay_return(p) ==
  /\ Resumes(p, "getDataGroupedByDay")
  /\ \E t \in Readings(now), parses \in BOOLEAN :
       LET data == getRecentData(getHeartRateHistory(call[p].got), call[p].arg, t) IN
         /\ ReturnFrom(p, data.val, getDataGroupedByDay(data, parses))
         /\ now' = t
  /\ UNCHANGED <<store, calls, ui, healthService>>

\* What the getter of `key' makes of the outcome of its getItem.
getterOf(key, got) ==
  CASE key = "HEART_RATE_HISTORY" -> getHeartRateHistory(got).val
    [] key = "HEALTH_RECORDS" -> getHealthRecords(got).val
    [] key = "THRESHOLDS" -> getThresholds(got).val
    [] key = "USER_SETTINGS" -> getUserSettings(got).val

\* p's call goes from one awaited getter to the next, the one of `key'.
AwaitNext(p, key) ==
  call' = [call EXCEPT ![p].pc = "getItem",
                       ![p].reads = Append(call[p].reads, getterOf(call[p].key, call[p].got)),
                       ![p].key = key]

\* exportDataAsJSON(): the four getters one after the other, then the clock.
ExportKeys == <<"HEART_RATE_HISTORY", "HEALTH_RECORDS", "THRESHOLDS", "USER_SETTINGS">>

exportDataAsJSON_call(p) ==
  /\ BeginReading(p, "exportDataAsJSON", Nil, Nil, ExportKeys[1])
  /\ UNCHANGED <<now, store, ui, healthService>>

exportDataAsJSON_next(p) ==
  /\ Resumes(p, "exportDataAsJSON")
  /\ Len(call[p].reads) + 1 < Len(ExportKeys)
  /\ AwaitNext(p, ExportKeys[Len(call[p].reads) + 2])
  /\ UNCHANGED <<now, store, calls, ui, healthService>>

exportDataAsJSON_return(p) ==
  /\ Resumes(p, "exportDataAsJSON")
  /\ Len(call[p].reads) + 1 = Len(ExportKeys)
  /\ \E t \in Readings(now) :
       LET read == Append(call[p].reads, getterOf(call[p].key, call[p].got)) IN
         /\ call' = [call EXCEPT
              ![p].pc = "done",
              ![p].reads = read,
              ![p].result = Returned(JSONstringify(
                 [exportDate |-> toISOString(t),
                  heartRateHistory |-> read[1],
                  healthRecords |-> read[2],
                  thresholds |-> read[3],
                  settings |-> read[4]]))]
         /\ now' = t
  /\ UNCHANGED <<store, calls, ui, healthService>>

\* getStorageInfo(): the two stream getters, then the counts and the size (the
\* sum of two sizes, kept as its two terms).
getStorageInfo_call(p) ==
  /\ BeginReading(p, "getStorageInfo", Nil, Nil, "HEART_RATE_HISTORY")
  /\ UNCHANGED <<now, store, ui, healthService>>

getStorageInfo_next(p) ==
  /\ Resumes(p, "getStorageInfo")
  /\ call[p].reads = <<>>
  /\ AwaitNext(p, "HEALTH_RECORDS")
  /\ UNCHANGED <<now, store, calls, ui, healthService>>

getStorageInfo_return(p) ==
  /\ Resumes(p, "getStorageInfo")
  /\ Len(call[p].reads) = 1
  /\ LET heartRate == call[p].reads[1]
         healthRecords == getterOf(call[p].key, call[p].got)
     IN call' = [call EXCEPT
          ![p].pc = "done",
          ![p].reads = <<heartRate, healthRecords>>,
          ![p].result = Returned(
             [heartRateCount |-> Len(heartRate),
              healthRecordCount |-> Len(healthRecords),
              estimatedSize |-> <<calculateSize(heartRate), calculateSize(healthRecords)>>])]
  /\ UNCHANGED <<now, store, calls, ui, healthService>>

----------------------------------------------------------------------------
\* HistoryScreen.

\* The screen mounts, or a period button is pressed: the effect runs loadData
\* with that period, which sets loading and awaits the query.
loadData_call(p) ==
  \E period \in PeriodKeys :
    /\ BeginReading(p, "loadData", period, Nil, "HEART_RATE_HISTORY")
    /\ ui' = [ui EXCEPT !.history.period = period, !.history.loading = TRUE]
    /\ UNCHANGED <<now, store, healthService>>

\* ... setData(records); calculateStats(records); finally setLoading(false).
loadData_return(p) ==
  /\ Resumes(p, "loadData")
  /\ \E t \in Readings(now) :
       LET history == getHeartRateHistory(call[p].got)
           records == IF call[p].arg = today
                      THEN getTodayData(history, t)
                      ELSE getRecentData(history, parseInt(call[p].arg).int, t)
       IN /\ ReturnFrom(p, records.val, Returned(Nil))
          /\ ui' = [ui EXCEPT !.history.data = records.val,
                              !.history.stats = calculateStats(records.val),
                              !.history.loading = FALSE]
          /\ now' = t
  /\ UNCHANGED <<store, calls, healthService>>

----------------------------------------------------------------------------
\* Thresholds in storage, and the Settings screen's threshold dialog.

\* storageService.getThresholds().
getThresholds_call(p) ==
  /\ BeginReading(p, "getThresholds", Nil, Nil, "THRESHOLDS")
  /\ UNCHANGED <<now, store, ui, healthService>>

getThresholds_return(p) ==
  /\ Resumes(p, "getThresholds")
  /\ Return(p, getThresholds(call[p].got))
  /\ UNCHANGED <<now, store, calls, ui, healthService>>

\* storageService.saveThresholds(thresholds): await setItem(THRESHOLDS,
\* JSON.stringify(thresholds)); return true, or false from the catch.
saveThresholds(p, thresholds) ==
  /\ Ready(p)
  /\ call' = [call EXCEPT ![p] =
       [IdleCall EXCEPT !.pc = "setItem", !.op = "saveThresholds",
                        !.arg = thresholds, !.key = "THRESHOLDS",
                        !.out = JSONstringify(thresholds),
                        !.before = store["THRESHOLDS"],
                        !.prev = Summary(call[p])]]
  /\ calls' = calls + 1

\* What is typed into the dialog's two inputs: '60', '100', '40', '200', '39',
\* '201', 'abc', '60abc'.
ThresholdTexts ==
  { <<"6", "0">>, <<"1", "0", "0">>, <<"4", "0">>, <<"2", "0", "0">>,
    <<"3", "9">>, <<"2", "0", "1">>, <<"a", "b", "c">>,
    <<"6", "0", "a", "b", "c">> }

\* The list item is pressed: setThresholdDialogVisible(true).
openThresholdDialog ==
  /\ ~ui.settings.thresholdDialogVisible
  /\ ui' = [ui EXCEPT !.settings.thresholdDialogVisible = TRUE]
  /\ UNCHANGED <<now, store, call, calls, healthService>>

\* Cancel, or the dialog is dismissed: setThresholdDialogVisible(false).
dismissThresholdDialog ==
  /\ ui.settings.thresholdDialogVisible
  /\ ui' = [ui EXCEPT !.settings.thresholdDialogVisible = FALSE]
  /\ UNCHANGED <<now, store, call, calls, healthService>>

\* onChangeText of the two inputs.
setMinHeartRate ==
  /\ ui.settings.thresholdDialogVisible
  /\ \E text \in ThresholdTexts : ui' = [ui EXCEPT !.settings.minHeartRate = text]
  /\ UNCHANGED <<now, store, call, calls, healthService>>

setMaxHeartRate ==
  /\ ui.settings.thresholdDialogVisible
  /\ \E text \in ThresholdTexts : ui' = [ui EXCEPT !.settings.maxHeartRate = text]
  /\ UNCHANGED <<now, store, call, calls, healthService>>

\* isNaN(x), and x >= y for numbers.
isNaN(x) == x.nan

AtLeast(x, y) == ~x.nan /\ ~y.nan /\ ~LessThan(x, y)

\* Alert.alert(title, message).
Alert(title, message) ==
  ui' = [ui EXCEPT !.settings.alert = [title |-> title, message |-> message]]

\* Save is pressed: SettingsScreen.saveThresholds.  The call of
\* storageService.saveThresholds is not awaited: the dialog closes and the
\* success alert shows while the write is still to come.
SettingsScreen_saveThresholds(p) ==
  /\ ui.settings.thresholdDialogVisible
  /\ LET min == parseInt(ui.settings.minHeartRate)
         max == parseInt(ui.settings.maxHeartRate)
     IN IF isNaN(min) \/ isNaN(max)
        THEN /\ Alert("Error", "Please enter valid numbers")
             /\ UNCHANGED <<call, calls>>
        ELSE IF AtLeast(min, max)
        THEN /\ Alert("Error", "Minimum heart rate must be less than maximum")
             /\ UNCHANGED <<call, calls>>
        ELSE IF LessThan(min, Double(40)) \/ GreaterThan(max, Double(200))
        THEN /\ Alert("Error", "Please enter reasonable heart rate range (40-200)")
             /\ UNCHANGED <<call, calls>>
        ELSE /\ saveThresholds(p, [min |-> min.int, max |-> max.int])
             /\ ui' = [ui EXCEPT
                  !.settings.thresholdDialogVisible = FALSE,
                  !.settings.alert = [title |-> "Success",
                                      message |-> "Threshold settings saved"]]
  /\ UNCHANGED <<now, store, healthService>>

----------------------------------------------------------------------------
\* SettingsScreen: the CSV export.  Text is a sequence of tokens: the
\* separators ',' and '\n', and the pieces of text put between them.
Comma == [sep |-> ","]
Newline == [sep |-> "\n"]

\* date.toLocaleDateString('en-US') and date.toLocaleTimeString('en-US'): the
\* local day (M/D/YYYY) and the local time of day (h:mm:ss AM), neither with
\* a comma.
toLocaleDateString(t) == [date |-> (t + TzOffset) \div TicksPerDay]
toLocaleTimeString(t) == [time |-> (t + TzOffset) % TicksPerDay]

\* The header without its line end.
csvHeader_unterminated ==
  <<[text |-> "Date"], Comma, [text |-> "Time"], Comma, [text |-> "Heart Rate (BPM)"]>>

\* const header = 'Date,Time,Heart Rate (BPM)\n'.
csvHeader ==
  <<[text |-> "Date"], Comma, [text |-> "Time"], Comma, [text |-> "Heart Rate (BPM)"],
    Newline>>

\* `${dateStr},${timeStr},${r.value}`.
csvRow(r) ==
  <<toLocaleDateString(r.timestamp), Comma, toLocaleTimeString(r.timestamp), Comma,
    [value |-> r.value]>>

\* rows.join(sep).
RECURSIVE join(_, _)
join(rows, sep) ==
  IF rows = <<>> THEN <<>>
  ELSE IF Len(rows) = 1 THEN rows[1]
  ELSE rows[1] \o <<sep>> \o join(Tail(rows), sep)

\* convertToCSV(data): header + rows.
convertToCSV(data) ==
  csvHeader \o join([i \in 1..Len(data) |-> csvRow(data[i])], Newline)

\* exportData: await getHeartRateHistory() ...
exportData_call(p) ==
  /\ BeginReading(p, "exportData", Nil, Nil, "HEART_RATE_HISTORY")
  /\ UNCHANGED <<now, store, ui, healthService>>

\* ... no data: a notice and nothing else; otherwise convert, read the clock
\* for the file name, await RNFS.writeFile(path, csv, 'utf8').
exportData_convert(p) ==
  /\ Resumes(p, "exportData")
  /\ LET data == getHeartRateHistory(call[p].got).val IN
       IF Len(data) = 0
       THEN /\ call' = [call EXCEPT ![p].pc = "done", ![p].reads = <<data>>,
                                    ![p].result = Returned(Nil)]
            /\ Alert("Notice", "No data available to export")
            /\ UNCHANGED now
       ELSE \E t \in Readings(now) :
              /\ call' = [call EXCEPT ![p].pc = "writeFile", ![p].reads = <<data>>,
                                      ![p].at = t, ![p].out = convertToCSV(data)]
              /\ now' = t
              /\ UNCHANGED ui
  /\ UNCHANGED <<store, calls, healthService>>

\* writeFile resolves: the success alert.
RNFS_writeFile(p) ==
  /\ call[p].pc = "writeFile"
  /\ Return(p, Returned(Nil))
  /\ Alert("Export Successful", "Data saved")
  /\ UNCHANGED <<now, store, calls, healthService>>

\* writeFile rejects: the catch shows the failure.
RNFS_writeFile_fails(p) ==
  /\ call[p].pc = "writeFile"
  /\ Return(p, Returned(Nil))
  /\ Alert("Export Failed", "error.message")
  /\ UNCHANGED <<now, store, calls, healthService>>

----------------------------------------------------------------------------
\* The health service's evaluators.  They are synchronous: a call is one step.

\* Heart rates, ages and blood-oxygen levels the evaluators are asked about.
CheckedHeartRates == {55, 60, 100, 105, 161, 162, 165, 170, 171}
Ages == {20, DefaultAge, 50}
BloodOxygens == {87, 89, 90, 94, 95, 97}

\* New thresholds handed to updateThresholds.
NewThresholds == {[minHeartRate |-> 50], [maxHeartRate |-> 170], [minBloodOxygen |-> 85]}

\* p calls the synchronous `op(arg)', which reads this.thresholds and returns.
Evaluate(p, op, arg, result) ==
  /\ Ready(p)
  /\ call' = [call EXCEPT ![p] =
       [IdleCall EXCEPT !.pc = "done", !.op = op, !.arg = arg,
                        !.reads = <<healthService.thresholds>>,
                        !.result = Returned(result),
                        !.prev = Summary(call[p])]]
  /\ calls' = calls + 1

checkHeartRateThreshold_call(p) ==
  \E heartRate \in CheckedHeartRates, userAge \in Ages :
    /\ Evaluate(p, "checkHeartRateThreshold",
                [heartRate |-> heartRate, userAge |-> userAge],
                checkHeartRateThreshold(heartRate, userAge))
    /\ UNCHANGED <<now, store, ui, healthService>>

checkBloodOxygen_call(p) ==
  \E bloodOxygen \in BloodOxygens :
    /\ Evaluate(p, "checkBloodOxygen", [bloodOxygen |-> bloodOxygen],
                checkBloodOxygen(bloodOxygen))
    /\ UNCHANGED <<now, store, ui, healthService>>

\* updateThresholds(newThresholds):
\* this.thresholds = { ...this.thresholds, ...newThresholds }.
updateThresholds ==
  \E newThresholds \in NewThresholds :
    /\ healthService' =
         [healthService EXCEPT !.thresholds = spread(@, newThresholds)]
    /\ UNCHANGED <<now, store, call, calls, ui>>

----------------------------------------------------------------------------
\* HomeScreen: the monitoring switch, the sampling interval and
\* updateHealthData.  The health service's getters are async functions that
\* await nothing: an invocation of updateHealthData runs from its start to
\* its first storage await with no timer or press in between.  (The step,
\* calorie and distance counters of the service are left out: the record
\* carries HealthInput's figures with the heart rate read.)

\* getCurrentHeartRate(): a rounded 70 +- 10, now and then +- 20 more, kept
\* within 45..180.
SensedHeartRates == {55, 72}

\* stopMonitoring(): if (intervalRef.current) { clearInterval; = null }.
stopMonitoring(home) ==
  IF home.intervalRef # 0
  THEN [home EXCEPT !.timers = @ \ {home.intervalRef}, !.intervalRef = 0]
  ELSE home

\* The caller p runs no invocation of updateHealthData and no call.
Free(p) == call[p].pc \in {"idle", "done"} /\ ui.home.update[p].stage = "none"

\* updateHealthData() as the first caller that is free, up to
\* `await storageService.saveHeartRateRecord(hr)',
\* itself up to its await of getItem: the readings, setHeartRate, the
\* threshold check and its alert, the record and its two clock readings.
updateHealthData(p, from, home) ==
  \E hr \in SensedHeartRates, t \in Readings(now) : \E dateClock \in Readings(t) :
    LET check == checkHeartRateThreshold(hr, DefaultAge)
        shown == IF check.status # "normal"
                 THEN [home EXCEPT !.alertMessage = check.message, !.alertVisible = TRUE]
                 ELSE home
    IN /\ home.updates < MaxUpdates
       /\ Free(p) /\ \A q \in Callers : q < p => ~Free(q)
       /\ call' = [call EXCEPT ![p] =
            [IdleCall EXCEPT !.pc = "getItem", !.op = "saveHeartRateRecord", !.arg = hr,
                             !.rec = HeartRateRecord(hr, t, dateClock),
                             !.key = "HEART_RATE_HISTORY",
                             !.before = store["HEART_RATE_HISTORY"],
                             !.reads = <<healthService.thresholds>>,
                             !.prev = Summary(call[p])]]
       /\ now' = dateClock
       /\ ui' = [ui EXCEPT !.home =
            [shown EXCEPT !.heartRate = hr, !.updates = @ + 1,
                          !.update[p] = [stage |-> "saveHeartRateRecord",
                                         from |-> from, hr |-> hr,
                                         check |-> check.status]]]

\* The switch is pressed while monitoring is off: setMonitoring(true); the
\* effect's cleanup (stopMonitoring) and then startMonitoring(), which awaits
\* updateHealthData().
HomeScreen_switchOn(p) ==
  /\ ~ui.home.monitoring
  /\ updateHealthData(p, "startMonitoring",
                      [stopMonitoring(ui.home) EXCEPT !.monitoring = TRUE])
  /\ UNCHANGED <<store, calls, healthService>>

\* The switch is pressed while monitoring is on: setMonitoring(false); the
\* effect's cleanup and the effect both call stopMonitoring().
HomeScreen_switchOff ==
  /\ ui.home.monitoring
  /\ ui' = [ui EXCEPT !.home =
       [stopMonitoring(stopMonitoring(ui.home)) EXCEPT !.monitoring = FALSE]]
  /\ UNCHANGED <<now, store, call, calls, healthService>>

\* An interval that is set fires: its callback awaits updateHealthData().
setInterval_fires(p) ==
  /\ ui.home.timers # {}
  /\ updateHealthData(p, "setInterval", ui.home)
  /\ UNCHANGED <<store, calls, healthService>>

\* saveHeartRateRecord has returned (true or false, neither is looked at):
\* await storageService.saveHealthRecord({ heartRate: hr, ... }).
updateHealthData_saveHealthRecord(p) ==
  /\ ui.home.update[p].stage = "saveHeartRateRecord"
  /\ call[p].pc = "done" /\ call[p].op = "saveHeartRateRecord"
  /\ \E t \in Readings(now) : \E dateClock \in Readings(t) :
       LET record == [HealthInput EXCEPT !.heartRate = ui.home.update[p].hr] IN
         /\ call' = [call EXCEPT ![p] =
              [IdleCall EXCEPT !.pc = "getItem", !.op = "saveHealthRecord",
                               !.arg = record,
                               !.rec = FullRecord(record, t, dateClock),
                               !.key = "HEALTH_RECORDS",
                               !.before = store["HEALTH_RECORDS"],
                               !.prev = Summary(call[p])]]
         /\ now' = dateClock
  /\ ui' = [ui EXCEPT !.home.update[p].stage = "saveHealthRecord"]
  /\ UNCHANGED <<store, calls, healthService>>

\* saveHealthRecord has returned: updateHealthData is over.  startMonitoring,
\* if it was the one awaiting, goes on:
\* intervalRef.current = setInterval(..., 3000).
updateHealthData_return(p) ==
  /\ ui.home.update[p].stage = "saveHealthRecord"
  /\ call[p].pc = "done" /\ call[p].op = "saveHealthRecord"
  /\ LET over == [ui.home EXCEPT !.update[p] = NoUpdate]
         id == ui.home.timerIds + 1
     IN ui' = [ui EXCEPT !.home =
          IF ui.home.update[p].from = "startMonitoring"
          THEN [over EXCEPT !.intervalRef = id, !.timers = @ \cup {id}, !.timerIds = id]
          ELSE over]
  /\ UNCHANGED <<now, store, call, calls, healthService>>

\* The alert dialog is dismissed: setAlertVisible(false).
dismissAlert ==
  /\ ui.home.alertVisible
  /\ ui' = [ui EXCEPT !.home.alertVisible = FALSE]
  /\ UNCHANGED <<now, store, call, calls, healthService>>

----------------------------------------------------------------------------

\* Two callers whose calls interleave at their awaits: the Home screen's
\* producer loop, and a second caller (an overlapping run of the loop, or a
\* screen that reads or clears).
Producer == 1
Screen == 2

Next ==
  \/ \E p \in Callers :
       \/ AsyncStorage_getItem(p)
       \/ AsyncStorage_setItem(p)
       \/ AsyncStorage_setItem_fails(p)
       \/ saveHeartRateRecord_call(p)
       \/ saveHeartRateRecord_filter(p)
  \/ saveHealthRecord_call(Producer)
  \/ saveHealthRecord_filter(Producer)
  \/ clearAllData_call(Screen)
  \/ AsyncStorage_multiRemove(Screen)
  \/ AsyncStorage_multiRemove_fails(Screen)
  \/ getHeartRateHistory_call(Screen)
  \/ getHeartRateHistory_return(Screen)
  \/ getHealthRecords_call(Screen)
  \/ getHealthRecords_return(Screen)

Spec == Init /\ [][Next]_vars

\* One caller, one call after the other: every method of the service.
NextScreen ==
  \/ AsyncStorage_getItem(Screen)
  \/ AsyncStorage_setItem(Screen)
  \/ AsyncStorage_setItem_fails(Screen)
  \/ AsyncStorage_multiRemove(Screen)
  \/ AsyncStorage_multiRemove_fails(Screen)
  \/ saveHeartRateRecord_call(Screen)
  \/ saveHeartRateRecord_filter(Screen)
  \/ saveHealthRecord_call(Screen)
  \/ saveHealthRecord_filter(Screen)
  \/ clearAllData_call(Screen)
  \/ getHeartRateHistory_call(Screen)
  \/ getHeartRateHistory_return(Screen)
  \/ getHealthRecords_call(Screen)
  \/ getHealthRecords_return(Screen)
  \/ getRecentData_call(Screen)
  \/ getRecentData_return(Screen)
  \/ getTodayData_call(Screen)
  \/ getTodayData_return(Screen)
  \/ getDataInRange_call(Screen)
  \/ getDataInRange_return(Screen)
  \/ getStatistics_call(Screen)
  \/ getStatistics_return(Screen)
  \/ getDataGroupedByDay_call(Screen)
  \/ getDataGroupedByDay_return(Screen)
  \/ exportDataAsJSON_call(Screen)
  \/ exportDataAsJSON_next(Screen)
  \/ exportDataAsJSON_return(Screen)
  \/ getStorageInfo_call(Screen)
  \/ getStorageInfo_next(Screen)
  \/ getStorageInfo_return(Screen)

SpecScreen == Init /\ [][NextScreen]_vars


----------------------------------------------------------------------------
\* The statistics as a function of the stored values: one query or one load
\* of the History screen per behaviour, over every short stream of a few heart
\* rates and the streams of the documented examples.

StatValues == {60, 65, 70}

TrendExamples ==
  { <<70, 70, 70, 70, 80, 80, 80, 80>>,
    <<70, 70, 70, 70, 70, 70, 70, 70>>,
    <<80, 80, 80, 80, 70, 70, 70, 70>> }

ValueSeqs == UNION {[1..n -> StatValues] : n \in 0..MaxLen} \cup TrendExamples

\* The stream of samples with these values, all taken at Now0.
StreamOf(values) == [i \in 1..Len(values) |-> HeartRateRecord(values[i], Now0, Now0)]

InitStats ==
  /\ now = Now0
  /\ \E values \in ValueSeqs :
       store = [EmptyStore EXCEPT !["HEART_RATE_HISTORY"] = JSONstringify(StreamOf(values))]
  /\ call = [p \in Callers |-> IdleCall]
  /\ calls = 0
  /\ ui = InitialUI
  /\ healthService = HealthService

NextStats ==
  \/ AsyncStorage_getItem(Screen)
  \/ calls = 0 /\ getStatistics_call(Screen)
  \/ getStatistics_return(Screen)
  \/ calls = 0 /\ loadData_call(Screen)
  \/ loadData_return(Screen)

SpecStats == InitStats /\ [][NextStats]_vars

----------------------------------------------------------------------------
\* Grouping by day, next to saves that interleave.  The producer loop's save
\* was called at the last tick of a local day and awaits its read of the
\* stream; the screen saves a sample of its own and asks for the daily groups.

\* The last tick of the local day before Now0's.
EndOfDay == startOfDay(Now0) - 1

InitGroup ==
  /\ now = EndOfDay
  /\ store \in PriorStores
  /\ \E heartRate \in HeartRates :
       call = [p \in Callers |->
                 IF p = Producer
                 THEN [IdleCall EXCEPT !.pc = "getItem", !.op = "saveHeartRateRecord",
                                       !.arg = heartRate,
                                       !.rec = HeartRateRecord(heartRate, EndOfDay, EndOfDay),
                                       !.key = "HEART_RATE_HISTORY",
                                       !.before = store["HEART_RATE_HISTORY"]]
                 ELSE IdleCall]
  /\ calls = 0
  /\ ui = InitialUI
  /\ healthService = HealthService

NextGroup ==
  \/ \E p \in Callers :
       \/ AsyncStorage_getItem(p)
       \/ AsyncStorage_setItem(p)
       \/ saveHeartRateRecord_filter(p)
  \/ saveHeartRateRecord_call(Screen)
  \/ getDataGroupedByDay_call(Screen)
  \/ getDataGroupedByDay_return(Screen)

SpecGroup == InitGroup /\ [][NextGroup]_vars

----------------------------------------------------------------------------
\* The health service on its own: the monitoring loop asks the evaluators,
\* and the thresholds are updated in between.
InitHealth ==
  /\ now = Now0
  /\ store = EmptyStore
  /\ call = [p \in Callers |-> IdleCall]
  /\ calls = 0
  /\ ui = InitialUI
  /\ healthService = HealthService

NextHealth ==
  \/ checkHeartRateThreshold_call(Producer)
  \/ checkBloodOxygen_call(Producer)
  \/ updateThresholds

SpecHealth == InitHealth /\ [][NextHealth]_vars

----------------------------------------------------------------------------
\* The Settings screen's threshold dialog and the thresholds in storage.
InitSettings ==
  /\ now = Now0
  /\ store = EmptyStore
  /\ call = [p \in Callers |-> IdleCall]
  /\ calls = 0
  /\ ui = InitialUI
  /\ healthService = HealthService

NextSettings ==
  \/ openThresholdDialog
  \/ dismissThresholdDialog
  \/ setMinHeartRate
  \/ setMaxHeartRate
  \/ SettingsScreen_saveThresholds(Screen)
  \/ AsyncStorage_setItem(Screen)
  \/ AsyncStorage_setItem_fails(Screen)
  \/ getThresholds_call(Screen)
  \/ AsyncStorage_getItem(Screen)
  \/ getThresholds_return(Screen)

SpecSettings == InitSettings /\ [][NextSettings]_vars

----------------------------------------------------------------------------
\* Appends of values that are not numbers, to an empty store.
InitAppend ==
  /\ now = Now0
  /\ store = EmptyStore
  /\ call = [p \in Callers |-> IdleCall]
  /\ calls = 0
  /\ ui = InitialUI
  /\ healthService = HealthService

NextAppend ==
  \/ saveHeartRateRecord_nonNumeric(Screen)
  \/ saveHeartRateRecord_filter(Screen)
  \/ saveHealthRecord_call(Screen)
  \/ saveHealthRecord_filter(Screen)
  \/ AsyncStorage_getItem(Screen)
  \/ AsyncStorage_setItem(Screen)
  \/ AsyncStorage_setItem_fails(Screen)

SpecAppend == InitAppend /\ [][NextAppend]_vars

----------------------------------------------------------------------------
\* The CSV export, over every stored stream of up to MaxLen values.
NextExport ==
  \/ exportData_call(Screen)
  \/ AsyncStorage_getItem(Screen)
  \/ exportData_convert(Screen)
  \/ RNFS_writeFile(Screen)
  \/ RNFS_writeFile_fails(Screen)

SpecExport == InitStats /\ [][NextExport]_vars

----------------------------------------------------------------------------
\* The JSON export of the screen while the producer saves.
NextBundle ==
  \/ saveHeartRateRecord_call(Producer)
  \/ saveHeartRateRecord_filter(Producer)
  \/ saveHealthRecord_call(Producer)
  \/ saveHealthRecord_filter(Producer)
  \/ AsyncStorage_setItem(Producer)
  \/ AsyncStorage_setItem_fails(Producer)
  \/ \E p \in Callers : AsyncStorage_getItem(p)
  \/ exportDataAsJSON_call(Screen)
  \/ exportDataAsJSON_next(Screen)
  \/ exportDataAsJSON_return(Screen)

SpecBundle == Init /\ [][NextBundle]_vars

----------------------------------------------------------------------------
\* The Home screen: the switch, the interval and the invocations of
\* updateHealthData, each with its two saves, on an empty store.
InitHome ==
  /\ now = Now0
  /\ store = EmptyStore
  /\ call = [p \in Callers |-> IdleCall]
  /\ calls = 0
  /\ ui = InitialUI
  /\ healthService = HealthService

NextHome ==
  \/ HomeScreen_switchOff
  \/ dismissAlert
  \/ \E p \in Callers :
       \/ HomeScreen_switchOn(p)
       \/ setInterval_fires(p)
       \/ updateHealthData_saveHealthRecord(p)
       \/ updateHealthData_return(p)
       \/ AsyncStorage_getItem(p)
       \/ saveHeartRateRecord_filter(p)
       \/ saveHealthRecord_filter(p)
       \/ AsyncStorage_setItem(p)
       \/ AsyncStorage_setItem_fails(p)

SpecHome == InitHome /\ [][NextHome]_vars

----------------------------------------------------------------------------
\* The Settings screen's threshold dialog next to the Home screen's switch:
\* the screen edits the minimum and saves, the producer starts monitoring,
\* checks its reading and saves it.
NextMonitor ==
  \/ openThresholdDialog
  \/ setMinHeartRate
  \/ SettingsScreen_saveThresholds(Screen)
  \/ AsyncStorage_setItem(Screen)
  \/ AsyncStorage_setItem_fails(Screen)
  \/ HomeScreen_switchOn(Producer)
  \/ HomeScreen_switchOff
  \/ AsyncStorage_getItem(Producer)
  \/ saveHeartRateRecord_filter(Producer)
  \/ AsyncStorage_setItem(Producer)
  \/ AsyncStorage_setItem_fails(Producer)

SpecMonitor == InitHome /\ [][NextMonitor]_vars

----------------------------------------------------------------------------
\* Properties.

\* The stream persisted under `key': the stored array, or none.
Persisted(key) == IF store[key] = Nil THEN <<>> ELSE JSONparse(store[key])

\* How often r occurs in s.
Occurrences(s, r) == Cardinality({i \in 1..Len(s) : s[i] = r})

\* The elements of s at the indices in I, in order.
RECURSIVE Pick(_, _)
Pick(s, I) ==
  IF s = <<>> THEN <<>>
  ELSE LET init == Pick(SubSeq(s, 1, Len(s) - 1), I)
       IN IF Len(s) \in I THEN Append(init, s[Len(s)]) ELSE init

SaveOps == {"saveHeartRateRecord", "saveHealthRecord"}

StreamKeys == {"HEART_RATE_HISTORY", "HEALTH_RECORDS"}

\* C1.  Retention: when a save's write takes effect, every sample of the
\* stream it wrote has a timestamp strictly greater than the clock value the
\* save read for its filter minus 30 days, whatever the stream held before and
\* whatever calls came before or run alongside.
RetentionAfterSave ==
  [][\A p \in Callers :
       (AsyncStorage_setItem(p) /\ call[p].op \in SaveOps) =>
          \A r \in Range(JSONparse(store'[call[p].key])) :
             r.timestamp > call[p].at - RetentionDays * TicksPerDay]_vars

\* A save has succeeded on a stream that held a sample older than 30 days and
\* one younger: the old one is gone, the young one is still there.
RetentionWitness ==
  \E p \in Callers :
    /\ call[p].pc = "done" /\ call[p].op = "saveHeartRateRecord"
    /\ call[p].result.val = TRUE
    /\ call[p].before # Nil
    /\ OldSample \in Range(JSONparse(call[p].before))
    /\ store["HEART_RATE_HISTORY"] = call[p].out
    /\ OldSample \notin Range(Persisted("HEART_RATE_HISTORY"))
    /\ EdgeSample \in Range(Persisted("HEART_RATE_HISTORY"))

\* C2.  A persisted sample leaves its stream only in a step of clearAllData,
\* or in the write of a save whose 30-day filter it no longer passes.
RemovedOnlyByRetentionOrClear ==
  [][\A key \in StreamKeys : \A r \in Range(Persisted(key)) :
       Occurrences(Persisted(key)', r) < Occurrences(Persisted(key), r) =>
          \/ \E p \in Callers : AsyncStorage_multiRemove(p)
          \/ \E p \in Callers :
               /\ AsyncStorage_setItem(p)
               /\ call[p].op \in SaveOps /\ call[p].key = key
               /\ ~(r.timestamp > call[p].at - RetentionDays * TicksPerDay)]_vars

\* C3.  A save whose storage write was rejected has returned false (it has
\* not thrown), the stream is what it was when the call began, and the call
\* is over: nothing of it is pending.
WriteFailureLeavesStream ==
  LET c == call[Screen] IN
    (c.op \in SaveOps /\ c.pc = "done" /\ c.result.val = FALSE) =>
       /\ c.result = [threw |-> FALSE, val |-> FALSE]
       /\ store[c.key] = c.before
       /\ ~ENABLED AsyncStorage_setItem(Screen)

\* A save on a stream that held samples has had its write rejected.
WriteFailureWitness ==
  LET c == call[Screen] IN
    /\ c.op \in SaveOps /\ c.pc = "done" /\ c.result.val = FALSE
    /\ c.before # Nil /\ c.out # Nil

\* C4.  Two saveHeartRateRecord calls that both returned true: if both read
\* the stream before either wrote it, the stream holds only one of the two
\* new samples; if one ran after the other, it holds both.
BothSaved ==
  \A p \in Callers :
    /\ call[p].pc = "done" /\ call[p].op = "saveHeartRateRecord"
    /\ call[p].result.val = TRUE /\ call[p].prev = Nil

NewSamplesPersisted ==
  Cardinality({i \in 1..Len(Persisted("HEART_RATE_HISTORY")) :
                 \E p \in Callers : Persisted("HEART_RATE_HISTORY")[i] = call[p].rec})

LostUpdateOnlyWhenInterleaved ==
  BothSaved =>
    IF \E p \in Callers : call[p].stale
    THEN NewSamplesPersisted = 1
    ELSE NewSamplesPersisted = 2

\* C5.  After a successful append of a sample that carries a timestamp 31 days
\* back, a query of its stream does not return that sample.
SuppliedTimestampHonoured ==
  LET c == call[Screen] IN
    (/\ c.pc = "done" /\ c.op = "getHealthRecords"
     /\ c.prev # Nil
     /\ c.prev.op = "saveHealthRecord"
     /\ c.prev.result.val = TRUE
     /\ "timestamp" \in DOMAIN c.prev.arg)
    => c.prev.rec \notin Range(c.result.val)

\* C6.  Every step of a read operation (its call, each resumption after an
\* await, its return) leaves every persisted key as it was.
ReadOps ==
  {"getHeartRateHistory", "getHealthRecords", "getRecentData", "getTodayData",
   "getDataInRange", "getStatistics", "getDataGroupedByDay", "exportDataAsJSON",
   "getStorageInfo"}

ReadsLeaveStoreUnchanged ==
  [][\A p \in Callers :
       (call'[p].pc # call[p].pc /\ call'[p].op \in ReadOps) => store' = store]_vars

\* An export has run to its end over a store that holds both streams and
\* saved thresholds.
ReadsWitness ==
  LET c == call[Screen] IN
    /\ c.pc = "done" /\ c.op = "exportDataAsJSON"
    /\ \A key \in StreamKeys \cup {"THRESHOLDS"} : store[key] # Nil
    /\ Len(c.reads) = 4 /\ c.reads[1] # <<>>

\* C7.  A query whose storage read succeeded returns the stored heart-rate
\* stream cut down to the samples in its range, in stored order: all of them
\* (getHeartRateHistory); those with timestamp > now - N days
\* (getRecentData(N)); those with timestamp >= the local midnight before now
\* (getTodayData); those with start <= timestamp <= end (getDataInRange).
LocalMidnight(t) ==
  CHOOSE m \in (t - TicksPerDay + 1)..t : (m + TzOffset) % TicksPerDay = 0

InRange(c, r) ==
  CASE c.op = "getHeartRateHistory" -> TRUE
    [] c.op = "getRecentData" -> r.timestamp > now - c.arg * TicksPerDay
    [] c.op = "getTodayData" -> r.timestamp >= LocalMidnight(now)
    [] c.op = "getDataInRange" ->
         c.arg.startDate <= r.timestamp /\ r.timestamp <= c.arg.endDate

HeartRateQueries ==
  {"getHeartRateHistory", "getRecentData", "getTodayData", "getDataInRange"}

QueriesReturnMatchingSubsequence ==
  LET c == call[Screen]
      stored == Persisted("HEART_RATE_HISTORY")
  IN (c.pc = "done" /\ c.op \in HeartRateQueries /\ ~c.got.threw) =>
        c.result = [threw |-> FALSE,
                    val |-> Pick(stored, {i \in 1..Len(stored) : InRange(c, stored[i])})]

\* A query has returned some but not all of the stored samples.
QueriesWitness ==
  LET c == call[Screen] IN
    /\ c.pc = "done" /\ c.op \in HeartRateQueries \ {"getHeartRateHistory"}
    /\ ~c.got.threw
    /\ 0 < Len(c.result.val)
    /\ Len(c.result.val) < Len(Persisted("HEART_RATE_HISTORY"))

\* C8.  Once clearAllData has succeeded, the next call finds the streams
\* empty: a query returns the empty sequence; saveHeartRateRecord returns true
\* and leaves exactly its new sample in the stream (unless its write is
\* rejected, which leaves the stream empty); clearAllData succeeds again and
\* changes nothing.
AfterClear(c) ==
  /\ c.pc = "done" /\ c.prev # Nil
  /\ c.prev.op = "clearAllData" /\ c.prev.result.val = TRUE

StreamQueries == HeartRateQueries \cup {"getHealthRecords", "getDataGroupedByDay"}

ClearedStoreIsReusable ==
  [][LET c == call'[Screen] IN
       (call[Screen].pc # "done" /\ AfterClear(c)) =>
          /\ c.op \in StreamQueries => c.result = [threw |-> FALSE, val |-> <<>>]
          /\ c.op = "saveHeartRateRecord" =>
               \/ AsyncStorage_setItem_fails(Screen) /\ store' = store
               \/ /\ c.result = [threw |-> FALSE, val |-> TRUE]
                  /\ Persisted("HEART_RATE_HISTORY")' = <<c.rec>>
          /\ c.op = "clearAllData" =>
               \/ AsyncStorage_multiRemove_fails(Screen)
               \/ c.result = [threw |-> FALSE, val |-> TRUE] /\ store' = store]_vars

\* A store that held samples has been cleared, and a heart rate saved after.
ClearedThenSaved ==
  LET c == call[Screen] IN
    /\ AfterClear(c) /\ c.op = "saveHeartRateRecord" /\ c.result.val = TRUE
    /\ store["THRESHOLDS"] # Nil

\* C9.  No query throws; on a stream that holds nothing, and when the storage
\* read is rejected, the list queries return the empty list and getStatistics
\* the zero state.
Queries == StreamQueries \cup {"getStatistics"}

QueriesNeverFail ==
  LET c == call[Screen] IN
    (c.pc = "done" /\ c.op \in Queries) =>
       /\ ~c.result.threw
       /\ (c.got.threw \/ c.before = Nil \/ c.before = [json |-> <<>>]) =>
            IF c.op = "getStatistics"
            THEN c.result.val = [average |-> 0, max |-> 0, min |-> 0, count |-> 0,
                                 trend |-> "stable"]
            ELSE c.result.val = <<>>

\* The read of a query was rejected while the stream held samples.
FailedReadWitness ==
  LET c == call[Screen] IN
    /\ c.pc = "done" /\ c.op \in {"getStatistics", "getRecentData"}
    /\ c.got.threw /\ c.before # Nil

\* C10.  The trend of n >= 2 values follows the exact means of the two halves
\* (the first floor(n / 2) values, and the rest): rising when the second mean
\* exceeds the first by more than 5, falling when it is lower by more than 5,
\* stable otherwise, a gap of exactly 5 included.  With sums a, b of halves of
\* k, m values: b / m > a / k + 5 exactly when b * k > a * m + 5 * k * m.
ExactTrend(values) ==
  LET k == Len(values) \div 2
      m == Len(values) - k
      a == sum(SubSeq(values, 1, k))
      b == sum(SubSeq(values, k + 1, Len(values)))
  IN IF b * k > a * m + TrendGap * k * m THEN "rising"
     ELSE IF b * k < a * m - TrendGap * k * m THEN "falling"
     ELSE "stable"

TrendFollowsExactMeans ==
  LET c == call[Screen] IN
    /\ (c.pc = "done" /\ c.op = "getStatistics" /\ Len(c.reads[1]) >= 2) =>
          c.result.val.trend = ExactTrend(valuesOf(c.reads[1]))
    /\ (c.pc = "done" /\ c.op = "loadData" /\ Len(ui.history.data) >= 2) =>
          ui.history.stats.trend = ExactTrend(valuesOf(ui.history.data))


----------------------------------------------------------------------------
\* C11  A single-sample data set: the statistics take no mean over an empty
\* half (no division has a zero divisor, so no undefined mean reaches the
\* result) and the trend is 'stable'.
SingleSampleTakesNoEmptyMean ==
  \A p \in Callers :
    call[p].pc = "done" /\ call[p].op = "getStatistics" =>
      LET values == valuesOf(call[p].reads[1]) IN
        Len(values) = 1 =>
          /\ call[p].result.val.trend = "stable"
          /\ Len(slice(values, 0, mid(values))) # 0
          /\ ~call[p].result.val.firstAvg.nan

----------------------------------------------------------------------------
\* C12  Over a non-empty window of samples, getStatistics returns, without
\* failing: average, the arithmetic mean of the values rounded to the nearest
\* integer (a mean ending in one half is rounded up); max and min, the largest
\* and the smallest value; count, the number of samples in the window.
Window(c) ==
  SelectSeq(Persisted("HEART_RATE_HISTORY"),
            LAMBDA r : r.timestamp > now - c.arg * TicksPerDay)

StatisticsAreExact ==
  LET c == call[Screen] IN
    (c.pc = "done" /\ c.op = "getStatistics" /\ ~c.got.threw /\ Window(c) # <<>>) =>
      LET v == [i \in 1..Len(Window(c)) |-> Window(c)[i].value]
          n == Len(v)
          total == sum(v)
          s == c.result.val
      IN /\ ~c.result.threw
         /\ s.count = n
         /\ s.max \in Range(v) /\ \A w \in Range(v) : w <= s.max
         /\ s.min \in Range(v) /\ \A w \in Range(v) : s.min <= w
         /\ 2 * n * s.average <= 2 * total + n
         /\ 2 * total + n < 2 * n * (s.average + 1)

\* Statistics were returned for values that differ and whose mean ends in one
\* half.
StatisticsWitness ==
  LET c == call[Screen] IN
    /\ c.pc = "done" /\ c.op = "getStatistics" /\ ~c.got.threw
    /\ Len(c.reads[1]) >= 3
    /\ c.result.val.min < c.result.val.max
    /\ (2 * sum(valuesOf(c.reads[1]))) % (2 * Len(c.reads[1])) = Len(c.reads[1])

----------------------------------------------------------------------------
----------------------------------------------------------------------------
\* C14  When the window it queries holds no sample (nothing stored, every
\* stored sample older than the window, or the read rejected), getStatistics
\* returns exactly {average: 0, max: 0, min: 0, count: 0, trend: 'stable'}
\* and does not fail.
EmptyStatisticsAreZero ==
  LET c == call[Screen] IN
    (c.pc = "done" /\ c.op = "getStatistics" /\ (c.got.threw \/ Window(c) = <<>>)) =>
      /\ ~c.result.threw
      /\ DOMAIN c.result.val = {"average", "max", "min", "count", "trend"}
      /\ c.result.val.average = 0
      /\ c.result.val.max = 0
      /\ c.result.val.min = 0
      /\ c.result.val.count = 0
      /\ c.result.val.trend = "stable"

\* getStatistics has answered for a window that holds none of the samples the
\* store holds.
EmptyStatisticsWitness ==
  LET c == call[Screen] IN
    /\ c.pc = "done" /\ c.op = "getStatistics" /\ ~c.got.threw
    /\ Persisted("HEART_RATE_HISTORY") # <<>>
    /\ Window(c) = <<>>
    /\ c.result.val.count = 0

----------------------------------------------------------------------------
\* C15  What getDataGroupedByDay returns holds exactly one bucket for each
\* local calendar day that has a sample in the window, no day twice, and the
\* buckets are in strictly ascending order of their days.
GroupedByDayAscending ==
  LET c == call[Screen] IN
    (c.pc = "done" /\ c.op = "getDataGroupedByDay") =>
      LET out == c.result.val IN
        /\ {out[i].date : i \in 1..Len(out)} =
             {dateKey(c.reads[1][i].timestamp) : i \in 1..Len(c.reads[1])}
        /\ \A i, j \in 1..Len(out) : i < j => out[i].date < out[j].date

\* The part of C15 that does not depend on the order: one bucket per day.
OneBucketPerDay ==
  LET c == call[Screen] IN
    (c.pc = "done" /\ c.op = "getDataGroupedByDay") =>
      LET out == c.result.val IN
        /\ {out[i].date : i \in 1..Len(out)} =
             {dateKey(c.reads[1][i].timestamp) : i \in 1..Len(c.reads[1])}
        /\ \A i, j \in 1..Len(out) : i # j => out[i].date # out[j].date

----------------------------------------------------------------------------
\* C16  Heart-rate classification.  With the thresholds in force at the call,
\* checkHeartRateThreshold returns low/warning for a value below the minimum;
\* for a value above the maximum, high/danger when the value exceeds 0.85 *
\* (220 - age), that is when 20 * value > 17 * (220 - age), and high/warning
\* otherwise; normal/normal in every other case.
HeartRateClass(value, thresholds, age) ==
  IF value < thresholds.minHeartRate THEN <<"low", "warning">>
  ELSE IF value > thresholds.maxHeartRate
  THEN IF 20 * value > 17 * (220 - age)
       THEN <<"high", "danger">> ELSE <<"high", "warning">>
  ELSE <<"normal", "normal">>

HeartRateClassified ==
  \A p \in Callers :
    (call[p].pc = "done" /\ call[p].op = "checkHeartRateThreshold") =>
      /\ ~call[p].result.threw
      /\ <<call[p].result.val.status, call[p].result.val.severity>> =
           HeartRateClass(call[p].arg.heartRate, call[p].reads[1], call[p].arg.userAge)

\* A value above the maximum that equals 0.85 * (220 - age) was classified.
HeartRateClassifiedWitness ==
  \E p \in Callers :
    /\ call[p].pc = "done" /\ call[p].op = "checkHeartRateThreshold"
    /\ call[p].arg.heartRate > call[p].reads[1].maxHeartRate
    /\ 20 * call[p].arg.heartRate = 17 * (220 - call[p].arg.userAge)
    /\ call[p].result.val.status = "high"
    /\ call[p].result.val.severity = "warning"

----------------------------------------------------------------------------
\* C17  Blood-oxygen classification.  Whatever the minimum in force at the
\* call, also one below 90, checkBloodOxygen returns critical/danger for a
\* value below 90, low/warning for a value from 90 up to but not including
\* the minimum, and normal/normal otherwise.
BloodOxygenClass(value, thresholds) ==
  IF value < 90 THEN <<"critical", "danger">>
  ELSE IF value < thresholds.minBloodOxygen THEN <<"low", "warning">>
  ELSE <<"normal", "normal">>

BloodOxygenClassified ==
  \A p \in Callers :
    (call[p].pc = "done" /\ call[p].op = "checkBloodOxygen") =>
      /\ ~call[p].result.threw
      /\ <<call[p].result.val.status, call[p].result.val.severity>> =
           BloodOxygenClass(call[p].arg.bloodOxygen, call[p].reads[1])

\* What does hold: the classification when the minimum in force is 90 or more.
BloodOxygenClassifiedFrom90 ==
  \A p \in Callers :
    (/\ call[p].pc = "done" /\ call[p].op = "checkBloodOxygen"
     /\ call[p].reads[1].minBloodOxygen >= 90) =>
      <<call[p].result.val.status, call[p].result.val.severity>> =
        BloodOxygenClass(call[p].arg.bloodOxygen, call[p].reads[1])

----------------------------------------------------------------------------
\* C18  The evaluators are pure: a call of checkHeartRateThreshold or
\* checkBloodOxygen returns the status and severity that the caller's
\* previous call with the same arguments returned, whatever was done in
\* between.
Evaluators == {"checkHeartRateThreshold", "checkBloodOxygen"}

EvaluatorsArePure ==
  \A p \in Callers :
    (/\ call[p].pc = "done" /\ call[p].op \in Evaluators
     /\ call[p].prev # Nil
     /\ call[p].prev.op = call[p].op
     /\ call[p].prev.arg = call[p].arg) =>
      /\ call[p].result.val.status = call[p].prev.result.val.status
      /\ call[p].result.val.severity = call[p].prev.result.val.severity

----------------------------------------------------------------------------
\* C19  A threshold update is rejected before any storage write when an
\* input is not a number, when min >= max, or when min < 40 or max > 200: the
\* press of Save starts no write, and the stored thresholds stay as they were.
Numeral(text) == text # <<>> /\ \A i \in 1..Len(text) : IsDigit(text[i])

InvalidThresholds(minText, maxText) ==
  \/ ~Numeral(minText)
  \/ ~Numeral(maxText)
  \/ DecimalValue(minText) >= DecimalValue(maxText)
  \/ DecimalValue(minText) < 40
  \/ DecimalValue(maxText) > 200

InvalidThresholdsRejected ==
  [][(/\ SettingsScreen_saveThresholds(Screen)
      /\ InvalidThresholds(ui.settings.minHeartRate, ui.settings.maxHeartRate))
       => UNCHANGED <<store, call>>]_vars

\* What does hold: an update is rejected before any write when an input does
\* not begin with a number, when min >= max, or when min < 40 or max > 200.
UnparsedThresholdsRejected ==
  [][(/\ SettingsScreen_saveThresholds(Screen)
      /\ \/ isNaN(parseInt(ui.settings.minHeartRate))
         \/ isNaN(parseInt(ui.settings.maxHeartRate))
         \/ parseInt(ui.settings.minHeartRate).int >= parseInt(ui.settings.maxHeartRate).int
         \/ parseInt(ui.settings.minHeartRate).int < 40
         \/ parseInt(ui.settings.maxHeartRate).int > 200)
       => UNCHANGED <<store, call>>]_vars

----------------------------------------------------------------------------
\* C20  Whatever the Settings screen has saved, the thresholds getThresholds
\* returns have exactly the fields min, max and minBloodOxygen, and min < max.
ThresholdsComplete ==
  LET c == call[Screen] IN
    (c.pc = "done" /\ c.op = "getThresholds") =>
      /\ ~c.result.threw
      /\ DOMAIN c.result.val = {"min", "max", "minBloodOxygen"}
      /\ c.result.val.min < c.result.val.max

\* What does hold: min and max are there, and min < max.
ThresholdsOrdered ==
  LET c == call[Screen] IN
    (c.pc = "done" /\ c.op = "getThresholds") =>
      /\ ~c.result.threw
      /\ {"min", "max"} \subseteq DOMAIN c.result.val
      /\ c.result.val.min < c.result.val.max

----------------------------------------------------------------------------
\* C21  Every sample in the two persisted streams carries the date that is
\* the ISO rendering of its own timestamp, however the clock advances while
\* the sample is saved.
DateMatchesTimestamp ==
  \A key \in StreamKeys :
    \A i \in 1..Len(Persisted(key)) :
      Persisted(key)[i].date = toISOString(Persisted(key)[i].timestamp)

----------------------------------------------------------------------------
\* C22  A save validates its input: a sample whose value is not a number is
\* never added to the persisted stream, and a sample given without a
\* timestamp is stored with the time of the save as its timestamp.
NonNumericNeverStored ==
  /\ \A i \in 1..Len(Persisted("HEART_RATE_HISTORY")) :
       Persisted("HEART_RATE_HISTORY")[i].value \notin NonNumbers
  /\ \A i \in 1..Len(Persisted("HEALTH_RECORDS")) :
       Persisted("HEALTH_RECORDS")[i].timestamp \in Now0..MaxNow

\* The part of C22 that holds: every stored health record carries the time
\* of its save.
StoredWithCurrentTime ==
  \A i \in 1..Len(Persisted("HEALTH_RECORDS")) :
    Persisted("HEALTH_RECORDS")[i].timestamp \in Now0..MaxNow

----------------------------------------------------------------------------
\* C23  The CSV made from N samples has exactly N + 1 lines: the header
\* Date,Time,Heart Rate (BPM), then one row for each sample in the order
\* given, each row of exactly three comma-separated fields of which the third
\* is the sample's value.  (A line end at the very end of the text ends the
\* last line; it does not begin another.)
RECURSIVE Split(_, _)
Split(text, sep) ==
  IF \A i \in 1..Len(text) : text[i] # sep THEN <<text>>
  ELSE LET at == CHOOSE i \in 1..Len(text) :
                   text[i] = sep /\ \A j \in 1..(i - 1) : text[j] # sep
       IN <<SubSeq(text, 1, at - 1)>> \o Split(SubSeq(text, at + 1, Len(text)), sep)

Lines(text) ==
  LET pieces == Split(text, Newline) IN
    IF pieces[Len(pieces)] = <<>> THEN SubSeq(pieces, 1, Len(pieces) - 1) ELSE pieces

CsvOf(data, csv) ==
  LET lines == Lines(csv) IN
    /\ Len(lines) = Len(data) + 1
    /\ Split(lines[1], Comma) =
         <<<<[text |-> "Date"]>>, <<[text |-> "Time"]>>, <<[text |-> "Heart Rate (BPM)"]>>>>
    /\ \A i \in 1..Len(data) :
         LET fields == Split(lines[i + 1], Comma) IN
           /\ Len(fields) = 3
           /\ fields[3] = <<[value |-> data[i].value]>>

CsvHasHeaderAndRows ==
  /\ CsvOf(<<>>, convertToCSV(<<>>))
  /\ LET c == call[Screen] IN
       (c.op = "exportData" /\ c.pc \in {"writeFile", "done"} /\ c.out # Nil) =>
         CsvOf(Persisted("HEART_RATE_HISTORY"), c.out)

\* A CSV of three or more samples with differing values was written.
CsvWitness ==
  LET c == call[Screen] IN
    /\ c.op = "exportData" /\ c.pc = "done" /\ c.out # Nil
    /\ Len(c.reads[1]) >= 3
    /\ c.reads[1][1].value # c.reads[1][2].value
    /\ ui.settings.alert.title = "Export Successful"

----------------------------------------------------------------------------
\* C24  The bundle exportDataAsJSON returns has exactly the keys exportDate,
\* heartRateHistory, healthRecords, thresholds and settings, and, parsed
\* again, its two streams are the persisted streams, also when appends occur
\* while the export is in progress.  Stated for the exports that read samples
\* from both streams, so that no read of a stream failed.
Bundles ==
  {c \in {call[Screen]} :
     /\ c.pc = "done" /\ c.op = "exportDataAsJSON" /\ ~c.result.threw
     /\ c.reads[1] # <<>> /\ c.reads[2] # <<>>}

BundleKeys ==
  \A c \in Bundles :
    DOMAIN JSONparse(c.result.val) =
      {"exportDate", "heartRateHistory", "healthRecords", "thresholds", "settings"}

BundleHoldsPersisted ==
  \A c \in Bundles :
    LET bundle == JSONparse(c.result.val) IN
      /\ bundle.heartRateHistory = Persisted("HEART_RATE_HISTORY")
      /\ bundle.healthRecords = Persisted("HEALTH_RECORDS")

----------------------------------------------------------------------------
\* C25  The Home screen's loop serializes its appends: at no moment are two
\* invocations of updateHealthData (and so two saves to one stream) in
\* progress at the same time, whatever the timing of the interval, of the
\* storage and of the switch.
Updating == {p \in Callers : ui.home.update[p].stage # "none"}

OneUpdateAtATime == Cardinality(Updating) <= 1

\* Two saveHeartRateRecord calls of the loop are never in progress together.
OneSaveAtATime ==
  Cardinality({p \in Updating : call[p].op = "saveHeartRateRecord" /\ call[p].pc # "done"}) <= 1

\* C26  Whenever monitoring is off and no startMonitoring is still awaiting
\* its first updateHealthData, no interval is set; and at most one interval is
\* ever set.
Starting == {p \in Callers : ui.home.update[p].from = "startMonitoring"}

NoTimerWhenOff ==
  /\ (~ui.home.monitoring /\ Starting = {}) => ui.home.timers = {}
  /\ Cardinality(ui.home.timers) <= 1

----------------------------------------------------------------------------
\* C27  After any sequence of saveHeartRateRecord calls, interleaved at their
\* storage awaits or not, under a clock that never goes back, the persisted
\* heart-rate stream is in the order of its timestamps (none is smaller than
\* the one before it).
StreamInTimestampOrder ==
  LET stream == Persisted("HEART_RATE_HISTORY") IN
    \A i \in 1..(Len(stream) - 1) : stream[i].timestamp <= stream[i + 1].timestamp

----------------------------------------------------------------------------
\* C28  Once the Settings screen has accepted and saved a pair { min, max },
\* every heart-rate check the monitoring loop makes from then on classifies
\* the reading against the saved min and max, not against the earlier or the
\* default ones.
SavedPair == JSONparse(store["THRESHOLDS"])

ChecksUseSavedThresholds ==
  [][\A p \in Callers :
       (/\ store["THRESHOLDS"] # Nil
        /\ ui.home.update[p].stage = "none"
        /\ ui'.home.update[p].stage = "saveHeartRateRecord")
       => ui'.home.update[p].check =
            HeartRateClass(ui'.home.update[p].hr,
                           [minHeartRate |-> SavedPair.min, maxHeartRate |-> SavedPair.max],
                           DefaultAge)[1]]_vars
=============================================================================
